---------------------------- MODULE Spec2Model ----------------------------
(***************************************************************************)
(* Model of the audio analysis pipeline of src/main.go: the segment        *)
(* planner (CreateSegments, createSegment, splitLongSegments), the two     *)
(* bounded worker pools (ExtractAudioSegments, ProcessWithCpp), the final  *)
(* sort and OutputResults, driven by Run.                                  *)
(*                                                                         *)
(* Time.  The code computes with float64 seconds.  The model computes with *)
(* exact rationals: a time is an integer number of ticks, Unit ticks to    *)
(* the second, where Unit is a multiple of every split count the inputs    *)
(* can produce, so that Duration / numSplits is exact.  The inputs are     *)
(* whole seconds.  Rounding error of float64 arithmetic is not modelled.   *)
(***************************************************************************)
EXTENDS Integers, Sequences, FiniteSets, TLC

VARIABLES
    pc,                 \* position of the main goroutine in Run
    MaxWorkers,         \* AudioAnalyzer.MaxWorkers
    MaxSegmentDuration, \* AudioAnalyzer.MaxSegmentDuration, in ticks
    silencePoints,      \* CreateSegments: result of DetectSilence, ticks
    totalDuration,      \* CreateSegments: result of GetAudioDuration, ticks
    currentStart,       \* CreateSegments: currentStart
    next,               \* CreateSegments: position of the range loop
    segments,           \* CreateSegments: segments before splitLongSegments
    plan,               \* Run: segments, as returned by CreateSegments
    semaphore,          \* number of items in the current phase's channel
    ext,                \* extraction goroutine of each segment
    files,              \* file paths present in OutputDir
    tr,                 \* transcription goroutine of each segment
    results,            \* ProcessWithCpp: results, as the goroutines write it
    ordered,            \* ProcessWithCpp: results after sort.Slice (returned)
    jsonFile,           \* transcription_results.json
    txtFile,            \* transcription_results.txt
    setupError,         \* history: DetectSilence or GetAudioDuration returned an error
    writers,            \* history: the goroutines that wrote each slot of results
    calls               \* history: the re-probe and the engine call of each segment

vars == <<pc, MaxWorkers, MaxSegmentDuration, silencePoints, totalDuration,
          currentStart, next, segments, plan, semaphore, ext, files, tr,
          results, ordered, jsonFile, txtFile, setupError, writers, calls>>

---------------------------------------------------------------------------
(* Bounds and input domains (seconds).                                     *)

MaxPoints == 3          \* longest silence-point sequence of the planner runs
MaxPipePoints == 2      \* longest silence-point sequence of the pipeline runs
MaxWorkersBound == 2    \* largest pool size
MaxSortLen == 3         \* longest result collection of the sort runs

MinGap == 10            \* the literal 10 of the boundary walk

PointValues == {0, 5, 10, 12, 45, 90, 130}
TotalValues == {0, 5, 60, 100, 120, 130}
MaxSegValues == {40, 60}
PipePointValues == {45}
PipeTotalValues == {5, 60, 100}

SetMax(S) == CHOOSE x \in S : \A y \in S : y <= x
SetMin(S) == CHOOSE x \in S : \A y \in S : x <= y

\* the largest numSplits any input can produce
MaxNumSplits == (SetMax(PointValues \cup TotalValues) \div SetMin(MaxSegValues)) + 1

RECURSIVE Gcd(_, _)
Gcd(a, b) == IF b = 0 THEN a ELSE Gcd(b, a % b)

RECURSIVE LcmUpTo(_)
LcmUpTo(n) == IF n <= 1 THEN 1 ELSE (n * LcmUpTo(n - 1)) \div Gcd(n, LcmUpTo(n - 1))

\* ticks per second
Unit == LcmUpTo(MaxNumSplits)

Ticks(S) == {s * Unit : s \in S}

RECURSIVE SeqsUpTo(_, _)
SeqsUpTo(S, n) ==
    IF n = 0 THEN {<< >>}
    ELSE SeqsUpTo(S, n - 1) \cup
         {Append(s, x) : s \in {t \in SeqsUpTo(S, n - 1) : Len(t) = n - 1}, x \in S}

PointSeqs == SeqsUpTo(Ticks(PointValues), MaxPoints)
PipePointSeqs == SeqsUpTo(Ticks(PipePointValues), MaxPipePoints)

---------------------------------------------------------------------------
(* Formatting.                                                             *)

\* fmt's %.1f of a time: the number of tenths of a second, rounded to
\* nearest, ties to even (a tie is a multiple of a quarter second, which
\* float64 holds exactly).
Fmt1(t) ==
    LET q == (t * 10) \div Unit
        r == (t * 10) % Unit
    IN  IF 2 * r > Unit \/ (2 * r = Unit /\ q % 2 = 1) THEN q + 1 ELSE q

---------------------------------------------------------------------------
(* Segment planner.                                                        *)

\* mutant of createSegment: the file named by the index alone
createSegmentIndexOnly(start, end, index) ==
    LET filename == <<"segment", index>>
    IN  [StartTime |-> start,
         EndTime   |-> end,
         Filename  |-> filename,
         FilePath  |-> <<"OutputDir", filename>>,
         Duration  |-> end - start]

createSegment(start, end, index) ==
    LET filename == <<"segment", index, Fmt1(start), Fmt1(end)>>
    IN  [StartTime |-> start,
         EndTime   |-> end,
         Filename  |-> filename,
         FilePath  |-> <<"OutputDir", filename>>,
         Duration  |-> end - start]

\* the boundary test of the walk and of the last segment
\* mutant of ClosesSegment: the minimum of the comment on the test, 3 seconds
ClosesSegmentThree(boundary, start) == boundary - start >= 3 * Unit

\* mutant of ClosesSegment: a strict comparison
ClosesSegmentStrict(boundary, start) == boundary - start > MinGap * Unit

ClosesSegment(boundary, start) == boundary - start >= MinGap * Unit

\* mutants of NumSplits: the + 1 forgotten; a true ceiling
NumSplitsTruncated(duration, max) == duration \div max

NumSplitsCeil(duration, max) == (duration + max - 1) \div max

NumSplits(duration, max) == (duration \div max) + 1

SplitDuration(duration, numSplits) == duration \div numSplits

SplitStart(segment, i, splitDuration) == segment.StartTime + i * splitDuration

\* mutant of SplitEnd: the end computed from i as the start is
SplitEndFromI(segment, i, numSplits, splitDuration) ==
    IF i = numSplits - 1
    THEN segment.EndTime
    ELSE segment.StartTime + i * splitDuration

SplitEnd(segment, i, numSplits, splitDuration) ==
    IF i = numSplits - 1
    THEN segment.EndTime
    ELSE segment.StartTime + (i + 1) * splitDuration

\* the inner loop of splitLongSegments, from i on
RECURSIVE SplitOne(_, _, _, _, _)
SplitOne(segment, numSplits, splitDuration, i, result) ==
    IF i >= numSplits THEN result
    ELSE SplitOne(segment, numSplits, splitDuration, i + 1,
                  Append(result,
                         createSegment(SplitStart(segment, i, splitDuration),
                                       SplitEnd(segment, i, numSplits, splitDuration),
                                       Len(result))))

\* the outer loop of splitLongSegments, from segs[k] on
RECURSIVE SplitFrom(_, _, _, _)
SplitFrom(segs, k, max, result) ==
    IF k > Len(segs) THEN result
    ELSE IF segs[k].Duration <= max
         THEN SplitFrom(segs, k + 1, max, Append(result, segs[k]))
         ELSE LET n == NumSplits(segs[k].Duration, max)
              IN  SplitFrom(segs, k + 1, max,
                            SplitOne(segs[k], n, SplitDuration(segs[k].Duration, n),
                                     0, result))

splitLongSegments(segs, max) == SplitFrom(segs, 1, max, << >>)

NoFile == [written |-> FALSE, body |-> << >>]

Init ==
    /\ pc = "start"
    /\ MaxWorkers \in 0..MaxWorkersBound
    /\ MaxSegmentDuration \in Ticks(MaxSegValues)
    /\ silencePoints = << >>
    /\ totalDuration = 0
    /\ currentStart = 0
    /\ next = 1
    /\ segments = << >>
    /\ plan = << >>
    /\ semaphore = 0
    /\ ext = << >>
    /\ files = {}
    /\ tr = << >>
    /\ results = << >>
    /\ ordered = << >>
    /\ jsonFile = NoFile
    /\ txtFile = NoFile
    /\ setupError = FALSE
    /\ writers = << >>
    /\ calls = << >>

\* the planner runs: the analyzer as NewAudioAnalyzer builds it (one worker),
\* with MaxSegmentDuration left open
InitPlan ==
    /\ Init
    /\ MaxWorkers = 1

planVars == <<plan, semaphore, ext, files, tr, results, ordered, jsonFile, txtFile,
              MaxWorkers, MaxSegmentDuration, writers, calls>>

\* CreateSegments, first call: DetectSilence returns the points or an error
DetectSilence(pointSeqs) ==
    /\ pc = "start"
    /\ \/ \E pts \in pointSeqs :
             /\ silencePoints' = pts
             /\ pc' = "probe"
             /\ UNCHANGED setupError
       \/ /\ pc' = "failed_create"
          /\ setupError' = TRUE
          /\ UNCHANGED silencePoints
    /\ UNCHANGED <<totalDuration, currentStart, next, segments, planVars>>

\* mutant of AfterProbeError: the error of the probe ignored
AfterProbeErrorIgnored(p) == "walk"

\* if err != nil { return nil, err } in CreateSegments, and the return of Run
AfterProbeError(p) == "failed_create"

\* CreateSegments, second call: GetAudioDuration returns the duration or an error
GetTotalDuration(totals) ==
    /\ pc = "probe"
    /\ \/ \E d \in totals :
             /\ totalDuration' = d
             /\ pc' = "walk"
             /\ UNCHANGED setupError
       \/ /\ pc' = AfterProbeError(pc)
          /\ setupError' = TRUE
          /\ UNCHANGED totalDuration
    /\ UNCHANGED <<silencePoints, currentStart, next, segments, planVars>>

\* one iteration of the range loop over silencePoints
WalkStep ==
    /\ pc = "walk"
    /\ next <= Len(silencePoints)
    /\ LET silenceEnd == silencePoints[next]
       IN  IF ClosesSegment(silenceEnd, currentStart)
           THEN /\ segments' = Append(segments,
                                      createSegment(currentStart, silenceEnd, Len(segments)))
                /\ currentStart' = silenceEnd
           ELSE UNCHANGED <<segments, currentStart>>
    /\ next' = next + 1
    /\ UNCHANGED <<pc, silencePoints, totalDuration, setupError, planVars>>

\* the last segment, after the loop
LastSegment ==
    /\ pc = "walk"
    /\ next > Len(silencePoints)
    /\ IF ClosesSegment(totalDuration, currentStart)
       THEN segments' = Append(segments,
                               createSegment(currentStart, totalDuration, Len(segments)))
       ELSE UNCHANGED segments
    /\ pc' = "split"
    /\ UNCHANGED <<silencePoints, totalDuration, currentStart, next, setupError, planVars>>

\* splitLongSegments and the return of CreateSegments to Run
SplitLongSegments ==
    /\ pc = "split"
    /\ plan' = splitLongSegments(segments, MaxSegmentDuration)
    /\ pc' = "planned"
    /\ UNCHANGED <<setupError, writers, calls, MaxWorkers, MaxSegmentDuration, silencePoints, totalDuration,
                   currentStart, next, segments, semaphore, ext, files, tr,
                   results, ordered, jsonFile, txtFile>>

---------------------------------------------------------------------------
(* The worker pools.                                                       *)

\* mutant of CanAcquire: the send never blocks
CanAcquireAlways(sem, cap) == TRUE

\* a send on the semaphore channel, make(chan struct{}, cap), completes when
\* the buffer has room; nothing receives from it but the deferred release
CanAcquire(sem, cap) == sem < cap

Running(workers) == {k \in DOMAIN workers : workers[k] = "running"}

\* mutant of AllDone: the wait forgotten
AllDoneNoWait(workers) == TRUE

\* wg.Wait(): every goroutine of the phase has called wg.Done
AllDone(workers) == \A k \in DOMAIN workers : workers[k] = "done"

\* ExtractAudioSegments up to wg.Wait: MkdirAll, then one goroutine a segment
StartExtraction ==
    /\ pc = "planned"
    /\ \/ /\ pc' = "extracting"
          /\ ext' = [k \in DOMAIN plan |-> "waiting"]
          /\ semaphore' = 0
       \/ /\ pc' = "failed_extract"
          /\ UNCHANGED <<ext, semaphore>>
    /\ UNCHANGED <<setupError, writers, calls, MaxWorkers, MaxSegmentDuration, silencePoints, totalDuration,
                   currentStart, next, segments, plan, files, tr, results,
                   ordered, jsonFile, txtFile>>

\* an extraction goroutine: semaphore <- struct{}{}
ExtAcquire(k) ==
    /\ pc = "extracting"
    /\ ext[k] = "waiting"
    /\ CanAcquire(semaphore, MaxWorkers)
    /\ semaphore' = semaphore + 1
    /\ ext' = [ext EXCEPT ![k] = "running"]
    /\ UNCHANGED <<pc, setupError, writers, calls, MaxWorkers, MaxSegmentDuration, silencePoints, totalDuration,
                   currentStart, next, segments, plan, files, tr, results,
                   ordered, jsonFile, txtFile>>

\* if err := a.extractSingleSegment(seg); err != nil { log.Printf(...) }
AfterExtractError(p) == p

\* an extraction goroutine: extractSingleSegment (ffmpeg writes the file or
\* fails, which is logged), then the deferred release and wg.Done
ExtFinish(k) ==
    /\ pc = "extracting"
    /\ ext[k] = "running"
    /\ \/ /\ files' = files \cup {plan[k].FilePath}
          /\ UNCHANGED pc
       \/ /\ pc' = AfterExtractError(pc)
          /\ UNCHANGED files
    /\ semaphore' = semaphore - 1
    /\ ext' = [ext EXCEPT ![k] = "done"]
    /\ UNCHANGED <<setupError, writers, calls, MaxWorkers, MaxSegmentDuration, silencePoints, totalDuration,
                   currentStart, next, segments, plan, tr, results, ordered,
                   jsonFile, txtFile>>

ZeroSegment ==
    [StartTime |-> 0, EndTime |-> 0, Filename |-> << >>, FilePath |-> << >>,
     Duration |-> 0]

ZeroResult == [Segment |-> ZeroSegment, Text |-> "", Error |-> ""]

\* the engine has not been called for the segment
NoCall == [called |-> FALSE, probeOk |-> FALSE, hint |-> 0]

\* wg.Wait of ExtractAudioSegments returns; Run calls ProcessWithCpp, which
\* makes results and the semaphore and starts one goroutine a segment
StartTranscription ==
    /\ pc = "extracting"
    /\ AllDone(ext)
    /\ pc' = "transcribing"
    /\ results' = [k \in DOMAIN plan |-> ZeroResult]
    /\ tr' = [k \in DOMAIN plan |-> "waiting"]
    /\ semaphore' = 0
    /\ writers' = [k \in DOMAIN plan |-> << >>]
    /\ calls' = [k \in DOMAIN plan |-> NoCall]
    /\ UNCHANGED <<setupError, MaxWorkers, MaxSegmentDuration, silencePoints, totalDuration,
                   currentStart, next, segments, plan, ext, files, ordered,
                   jsonFile, txtFile>>

\* a transcription goroutine: semaphore <- struct{}{}
TrAcquire(k) ==
    /\ pc = "transcribing"
    /\ tr[k] = "waiting"
    /\ CanAcquire(semaphore, MaxWorkers)
    /\ semaphore' = semaphore + 1
    /\ tr' = [tr EXCEPT ![k] = "running"]
    /\ UNCHANGED <<pc, setupError, writers, calls, MaxWorkers, MaxSegmentDuration, silencePoints, totalDuration,
                   currentStart, next, segments, plan, ext, files, results,
                   ordered, jsonFile, txtFile>>

\* what the engine's output, trimmed, can be
Texts == {"", "text"}

ErrorText == "C++ whisper transcription failed"

\* the outcomes of transcribeCpp that return: (text, nil) or ("", err)
Outcomes == [text : Texts, err : {""}] \cup [text : {""}, err : {ErrorText}]

\* mutant of MakeResult: the text set on the error path as well
MakeResultBoth(seg, out) == [Segment |-> seg, Text |-> "text", Error |-> out.err]

\* the result a goroutine builds from the return of transcribeCpp
MakeResult(seg, out) ==
    IF out.err # ""
    THEN [Segment |-> seg, Text |-> "", Error |-> out.err]
    ELSE [Segment |-> seg, Text |-> out.text, Error |-> ""]

\* mutant of WriteSlot: every goroutine writes the first slot
WriteSlotFirst(slots, index, result) == [slots EXCEPT ![1] = result]

\* mutant of WriteSlot: every goroutine sees the loop's last index
WriteSlotLast(slots, index, result) == [slots EXCEPT ![Len(slots)] = result]

\* results[index] = result
WriteSlot(slots, index, result) == [slots EXCEPT ![index] = result]

\* fmt's %.0f of seconds*1000: whole milliseconds, rounded to nearest, ties
\* to even
FmtMillis(t) ==
    LET q == (t * 1000) \div Unit
        r == (t * 1000) % Unit
    IN  IF 2 * r > Unit \/ (2 * r = Unit /\ q % 2 = 1) THEN q + 1 ELSE q

\* GetAudioDuration(filepath): ffprobe fails on a file that is not there, and
\* can fail (exit status, unparsable output) on one that is
ProbeOutcomes(fileExists) == IF fileExists THEN BOOLEAN ELSE {FALSE}

\* seconds, err := GetAudioDuration(filepath): the duration of the extracted
\* file, or 0 with the error, which transcribeCpp does not look at
ProbedSeconds(probeOk, seg) == IF probeOk THEN seg.Duration ELSE 0

\* a transcription goroutine: transcribeCpp, the write of its slot, then the
\* deferred release and wg.Done.  transcribeCpp ends the process with
\* log.Fatal when main.exe is missing; otherwise it probes the file, ignores
\* the probe's error, and calls the engine with the hint.  Nothing in
\* transcribeCpp looks at the file: what the engine makes of a file that is
\* not there is the engine's exit status, as for any other file.
TrFinish(k) ==
    /\ pc = "transcribing"
    /\ tr[k] = "running"
    /\ \/ /\ pc' = "fatal"
          /\ UNCHANGED <<semaphore, tr, results, writers, calls>>
       \/ \E probeOk \in ProbeOutcomes(plan[k].FilePath \in files),
             out \in Outcomes :
             /\ calls' = [calls EXCEPT ![k] =
                             [called  |-> TRUE,
                              probeOk |-> probeOk,
                              hint    |-> FmtMillis(ProbedSeconds(probeOk, plan[k]))]]
             /\ results' = WriteSlot(results, k, MakeResult(plan[k], out))
             /\ writers' = [j \in DOMAIN writers |->
                               IF results'[j] # results[j]
                               THEN Append(writers[j], k)
                               ELSE writers[j]]
             /\ semaphore' = semaphore - 1
             /\ tr' = [tr EXCEPT ![k] = "done"]
             /\ UNCHANGED pc
    /\ UNCHANGED <<setupError, MaxWorkers, MaxSegmentDuration, silencePoints, totalDuration,
                   currentStart, next, segments, plan, ext, files, ordered,
                   jsonFile, txtFile>>

---------------------------------------------------------------------------
(* The final sort.  sort.Slice promises an ordered result and no more: "the *)
(* sort is not guaranteed to be stable".  What it does to a slice of at    *)
(* most 12 elements depends on the toolchain that builds the program (no   *)
(* go.mod pins one): insertion sort alone since Go 1.19                    *)
(* (insertionSortLessFunc), and before that one shell pass with gap 6      *)
(* followed by insertion sort (quickSort_func).                            *)

\* mutant of Less: the comparison reversed
LessReversed(a, b) == a.Segment.StartTime > b.Segment.StartTime

\* the less function handed to sort.Slice
Less(a, b) == a.Segment.StartTime < b.Segment.StartTime

Swap(s, i, j) == [s EXCEPT ![i] = s[j], ![j] = s[i]]

\* for j := i; j > a && less(j, j-1); j-- { swap(j, j-1) }
RECURSIVE Sink(_, _)
Sink(s, j) ==
    IF j > 1 /\ Less(s[j], s[j - 1]) THEN Sink(Swap(s, j, j - 1), j - 1) ELSE s

\* for i := a + 1; i < b; i++ { ... }
RECURSIVE InsertionSort(_, _)
InsertionSort(s, i) == IF i > Len(s) THEN s ELSE InsertionSort(Sink(s, i), i + 1)

SortSlice(s) == InsertionSort(s, 2)

\* for i := a + 6; i < b; i++ { if less(i, i-6) { swap(i, i-6) } }
RECURSIVE ShellPass(_, _)
ShellPass(s, i) ==
    IF i > Len(s)
    THEN s
    ELSE ShellPass(IF Less(s[i], s[i - 6]) THEN Swap(s, i, i - 6) ELSE s, i + 1)

\* sort.Slice as built by a toolchain older than Go 1.19
SortSliceLegacy(s) == InsertionSort(ShellPass(s, 7), 2)

\* wg.Wait of ProcessWithCpp returns; the results are sorted and returned
SortAndReturn ==
    /\ pc = "transcribing"
    /\ AllDone(tr)
    /\ ordered' \in {SortSlice(results), SortSliceLegacy(results)}
    /\ pc' = "processed"
    /\ UNCHANGED <<setupError, writers, calls, MaxWorkers, MaxSegmentDuration, silencePoints, totalDuration,
                   currentStart, next, segments, plan, semaphore, ext, files,
                   tr, results, jsonFile, txtFile>>

---------------------------------------------------------------------------
(* OutputResults.                                                          *)

\* one element of the JSON array: the error key is omitted when empty
JsonRecord(r) ==
    << <<"segment", r.Segment>>, <<"text", r.Text>> >> \o
    (IF r.Error # "" THEN << <<"error", r.Error>> >> ELSE << >>)

\* mutant of ReportLine: the error branch lost
ReportLineTextOnly(r) ==
    <<Fmt1(r.Segment.StartTime), Fmt1(r.Segment.EndTime), "", r.Text>>

\* one line of the text report
ReportLine(r) ==
    IF r.Error # ""
    THEN <<Fmt1(r.Segment.StartTime), Fmt1(r.Segment.EndTime), "ERROR: ", r.Error>>
    ELSE <<Fmt1(r.Segment.StartTime), Fmt1(r.Segment.EndTime), "", r.Text>>

JsonDocument(rs) == [k \in DOMAIN rs |-> JsonRecord(rs[k])]

TextReport(rs) == [k \in DOMAIN rs |-> ReportLine(rs[k])]

\* OutputResults: the JSON file, then the text file; either write can fail
OutputResults ==
    /\ pc = "processed"
    /\ \/ /\ pc' = "failed_output"
          /\ UNCHANGED <<jsonFile, txtFile>>
       \/ /\ jsonFile' = [written |-> TRUE, body |-> JsonDocument(ordered)]
          /\ pc' = "failed_output"
          /\ UNCHANGED txtFile
       \/ /\ jsonFile' = [written |-> TRUE, body |-> JsonDocument(ordered)]
          /\ txtFile' = [written |-> TRUE, body |-> TextReport(ordered)]
          /\ pc' = "done"
    /\ UNCHANGED <<setupError, writers, calls, MaxWorkers, MaxSegmentDuration, silencePoints, totalDuration,
                   currentStart, next, segments, plan, semaphore, ext, files,
                   tr, results, ordered>>

---------------------------------------------------------------------------
(* Specifications.                                                         *)

\* Run, from its first line to its return or the end of the process
Next ==
    \/ DetectSilence(PipePointSeqs)
    \/ GetTotalDuration(Ticks(PipeTotalValues))
    \/ WalkStep
    \/ LastSegment
    \/ SplitLongSegments
    \/ StartExtraction
    \/ \E k \in DOMAIN ext : ExtAcquire(k)
    \/ \E k \in DOMAIN ext : ExtFinish(k)
    \/ StartTranscription
    \/ \E k \in DOMAIN tr : TrAcquire(k)
    \/ \E k \in DOMAIN tr : TrFinish(k)
    \/ SortAndReturn
    \/ OutputResults

Spec == Init /\ [][Next]_vars

\* the sort alone: ProcessWithCpp at its wg.Wait, called with any plan of
\* segments (sorted or not, start times repeated or not), every goroutine
\* done and its slot written
SortStarts == {0, 10, 20}

SortSegments == {createSegment(s * Unit, (s + MinGap) * Unit, 0) : s \in SortStarts}

SortResults ==
    {MakeResult(seg, out) : seg \in SortSegments,
                            out \in {o \in Outcomes : o.text = "text" \/ o.err # ""}}

\* collections long enough for the shell pass to compare anything: seven
\* results over two start times
SortResultsLong ==
    [1..7 -> {r \in SortResults : r.Segment.StartTime <= MinGap * Unit}]

InitSort ==
    /\ pc = "transcribing"
    /\ MaxWorkers = 1
    /\ MaxSegmentDuration = SetMax(Ticks(MaxSegValues))
    /\ silencePoints = << >>
    /\ totalDuration = 0
    /\ currentStart = 0
    /\ next = 1
    /\ segments = << >>
    /\ results \in SeqsUpTo(SortResults, MaxSortLen) \cup SortResultsLong
    /\ plan = [k \in DOMAIN results |-> results[k].Segment]
    /\ semaphore = 0
    /\ ext = [k \in DOMAIN results |-> "done"]
    /\ files = {}
    /\ tr = [k \in DOMAIN results |-> "done"]
    /\ ordered = << >>
    /\ jsonFile = NoFile
    /\ txtFile = NoFile
    /\ setupError = FALSE
    /\ writers = [k \in DOMAIN results |-> <<k>>]
    /\ calls = [k \in DOMAIN results |-> NoCall]

NextSort == SortAndReturn

SpecSort == InitSort /\ [][NextSort]_vars

\* the planner alone, over the wide input domain
NextPlan ==
    \/ DetectSilence(PointSeqs)
    \/ GetTotalDuration(Ticks(TotalValues))
    \/ WalkStep
    \/ LastSegment
    \/ SplitLongSegments

SpecPlan == InitPlan /\ [][NextPlan]_vars

---------------------------------------------------------------------------
(* Properties of the plan.                                                 *)

\* CreateSegments has returned to Run (plan holds its result)
Planned == pc \notin {"start", "probe", "walk", "split", "failed_create"}

\* the sequence index a segment was created with, as its file name carries it
Index(segment) == segment.Filename[2]

Intervals(segs) == [k \in DOMAIN segs |-> <<segs[k].StartTime, segs[k].EndTime>>]

\* the positions of the plan that lie inside the raw segment r
PiecesOf(r) ==
    {k \in DOMAIN plan : r.StartTime <= plan[k].StartTime /\ plan[k].EndTime <= r.EndTime}

CeilDiv(a, b) == (a + b - 1) \div b

RECURSIVE SumDurations(_)
SumDurations(K) ==
    IF K = {} THEN 0
    ELSE LET k == CHOOSE x \in K : TRUE
         IN  plan[k].Duration + SumDurations(K \ {k})

\* the model's arithmetic is exact: every division of a duration by its
\* split count leaves no remainder
SplitIsExact ==
    \A k \in DOMAIN segments :
        segments[k].Duration > MaxSegmentDuration =>
            segments[k].Duration % NumSplits(segments[k].Duration, MaxSegmentDuration) = 0

\* C1: in the plan CreateSegments returns, no two segments overlap as
\* [start, end) intervals, and every segment's duration is greater than 0
\* and at most MaxSegmentDuration, whatever the silence points (unsorted,
\* duplicate, beyond totalDuration) and the non-negative totalDuration.
C1_NoOverlapBounded ==
    Planned =>
        /\ \A i, j \in DOMAIN plan :
              i # j => \/ plan[i].EndTime <= plan[j].StartTime
                       \/ plan[j].EndTime <= plan[i].StartTime
        /\ \A i \in DOMAIN plan :
              /\ plan[i].Duration = plan[i].EndTime - plan[i].StartTime
              /\ plan[i].Duration > 0
              /\ plan[i].Duration <= MaxSegmentDuration

\* a plan of unsorted points, one of them beyond totalDuration, with a split
C1_Witness ==
    /\ pc = "planned"
    /\ \E i, j \in DOMAIN silencePoints : i < j /\ silencePoints[i] > silencePoints[j]
    /\ \E i \in DOMAIN silencePoints : silencePoints[i] > totalDuration
    /\ Len(segments) >= 2
    /\ Len(plan) > Len(segments)

\* C7 as stated: a segment of duration D > MaxSegmentDuration is split into
\* exactly ceil(D / MaxSegmentDuration) sub-segments, also when D is an exact
\* multiple of MaxSegmentDuration; a segment with D <= MaxSegmentDuration is
\* left unsplit.
C7_CeilSplitCount ==
    Planned =>
        \A k \in DOMAIN segments :
            Cardinality(PiecesOf(segments[k])) =
                IF segments[k].Duration > MaxSegmentDuration
                THEN CeilDiv(segments[k].Duration, MaxSegmentDuration)
                ELSE 1

\* C7 amended: a segment of duration D > MaxSegmentDuration is split into
\* exactly floor(D / MaxSegmentDuration) + 1 sub-segments, which is
\* ceil(D / MaxSegmentDuration) unless D is an exact multiple of
\* MaxSegmentDuration, and then one more; a segment with
\* D <= MaxSegmentDuration is left unsplit (one piece, the segment itself).
C7_FloorPlusOneSplitCount ==
    Planned =>
        \A k \in DOMAIN segments :
            LET D == segments[k].Duration
                n == Cardinality(PiecesOf(segments[k]))
            IN  IF D > MaxSegmentDuration
                THEN /\ n = (D \div MaxSegmentDuration) + 1
                     /\ n = IF D % MaxSegmentDuration = 0
                            THEN CeilDiv(D, MaxSegmentDuration) + 1
                            ELSE CeilDiv(D, MaxSegmentDuration)
                ELSE /\ n = 1
                     /\ \E p \in PiecesOf(segments[k]) : plan[p] = segments[k]

\* a split segment whose duration is an exact multiple of MaxSegmentDuration,
\* one that is not, and an unsplit one, in one plan or another
C7_Witness ==
    /\ pc = "planned"
    /\ \E k \in DOMAIN segments :
          /\ segments[k].Duration > MaxSegmentDuration
          /\ segments[k].Duration % MaxSegmentDuration = 0
          /\ Cardinality(PiecesOf(segments[k])) =
                 (segments[k].Duration \div MaxSegmentDuration) + 1
    /\ \E k \in DOMAIN segments : segments[k].Duration <= MaxSegmentDuration

\* C8: the sub-segments of a split segment [s, e) of duration D tile it: they
\* are consecutive in the plan, the first starts at s, the last ends at e,
\* each starts where its predecessor ends, every one has start < end, and
\* their durations sum to D.
C8_SplitTiles ==
    Planned =>
        \A k \in DOMAIN segments :
            segments[k].Duration > MaxSegmentDuration =>
                LET K  == PiecesOf(segments[k])
                    lo == SetMin(K)
                    hi == SetMax(K)
                IN  /\ K # {}
                    /\ K = lo..hi
                    /\ Cardinality(K) = NumSplits(segments[k].Duration, MaxSegmentDuration)
                    /\ plan[lo].StartTime = segments[k].StartTime
                    /\ plan[hi].EndTime = segments[k].EndTime
                    /\ \A p \in K : plan[p].StartTime < plan[p].EndTime
                    /\ \A p \in K : p > lo => plan[p].StartTime = plan[p - 1].EndTime
                    /\ SumDurations(K) = segments[k].Duration

\* a segment split into three or more parts, after an earlier segment
C8_Witness ==
    /\ pc = "planned"
    /\ \E k \in DOMAIN segments :
          /\ k > 1
          /\ segments[k].Duration > MaxSegmentDuration
          /\ Cardinality(PiecesOf(segments[k])) >= 3

\* the scenario of C9: 100 s, silence points 12, 45, 90, maximum 40 s
C9_Scenario ==
    /\ totalDuration = 100 * Unit
    /\ silencePoints = <<12 * Unit, 45 * Unit, 90 * Unit>>
    /\ MaxSegmentDuration = 40 * Unit

\* C9: with total duration 100, silence points [12, 45, 90], minimum gap 10
\* and MaxSegmentDuration 40, the walk gives [0,12), [12,45), [45,90),
\* [90,100) and the plan is [0,12), [12,45), [45,67.5), [67.5,90), [90,100).
C9_EndToEnd ==
    (Planned /\ C9_Scenario) =>
        /\ MinGap = 10
        /\ Intervals(segments) =
              << <<0, 12 * Unit>>, <<12 * Unit, 45 * Unit>>,
                 <<45 * Unit, 90 * Unit>>, <<90 * Unit, 100 * Unit>> >>
        /\ 2 * plan[3].EndTime = 135 * Unit
        /\ Intervals(plan) =
              << <<0, 12 * Unit>>, <<12 * Unit, 45 * Unit>>,
                 <<45 * Unit, plan[3].EndTime>>, <<plan[3].EndTime, 90 * Unit>>,
                 <<90 * Unit, 100 * Unit>> >>

C9_Witness == pc = "planned" /\ C9_Scenario /\ Len(plan) = 5

\* C10: in the plan CreateSegments returns, the k-th segment carries the
\* sequence index k (counting from 0): the indices are renumbered
\* sequentially, also for an unsplit segment that follows a split one.
C10_SequentialIndex ==
    Planned => \A k \in DOMAIN plan : Index(plan[k]) = k - 1

---------------------------------------------------------------------------
(* Properties of the pipeline.                                             *)

\* ProcessWithCpp has returned
Processed == pc \in {"processed", "done", "failed_output"}

\* C2: ProcessWithCpp returns a collection as long as the plan, and slot i of
\* it carries the segment plan[i], whatever the order the goroutines finished
\* in; so does slot i of the collection the goroutines wrote.
C2_SlotsFollowPlan ==
    Processed =>
        /\ Len(ordered) = Len(plan)
        /\ Len(results) = Len(plan)
        /\ \A i \in DOMAIN plan :
              /\ ordered[i].Segment = plan[i]
              /\ results[i].Segment = plan[i]

\* ProcessWithCpp returned for a plan of three or more segments with failed
\* and successful transcriptions
C2_Witness ==
    /\ pc = "processed"
    /\ Len(plan) >= 3
    /\ \E i, j \in DOMAIN ordered : ordered[i].Error # "" /\ ordered[j].Error = ""

\* C3: in both phases the number of goroutines between acquiring and
\* releasing a pool slot is at most MaxWorkers, and is the number of items
\* in the semaphore channel.
C3_BoundedConcurrency ==
    /\ Cardinality(Running(ext)) <= MaxWorkers
    /\ Cardinality(Running(tr)) <= MaxWorkers
    /\ pc = "extracting" => semaphore = Cardinality(Running(ext))
    /\ pc = "transcribing" => semaphore = Cardinality(Running(tr))

\* a full pool of two with a goroutine waiting for a slot
C3_Witness ==
    /\ pc = "transcribing"
    /\ MaxWorkers = 2
    /\ Cardinality(Running(tr)) = MaxWorkers
    /\ \E k \in DOMAIN tr : tr[k] = "waiting"

\* C4: a failure of one segment's transcription, a missing engine binary
\* included, never aborts the other invocations: the process is never ended
\* from inside the transcription phase.
C4_FailureNeverAborts == pc # "fatal"

\* C6: the text report and the JSON document, once written, hold exactly one
\* record per planned segment, in plan order: the record of a segment whose
\* transcription failed is an ERROR line with the message, that of a segment
\* that succeeded carries its text.
C6_ReportListsEverySegment ==
    /\ txtFile.written =>
          /\ pc = "done"
          /\ Len(txtFile.body) = Len(plan)
          /\ \A k \in DOMAIN plan :
                /\ txtFile.body[k][1] = Fmt1(plan[k].StartTime)
                /\ txtFile.body[k][2] = Fmt1(plan[k].EndTime)
                /\ IF results[k].Error # ""
                   THEN /\ txtFile.body[k][3] = "ERROR: "
                        /\ txtFile.body[k][4] = results[k].Error
                   ELSE /\ txtFile.body[k][3] = ""
                        /\ txtFile.body[k][4] = results[k].Text
    /\ jsonFile.written =>
          /\ Len(jsonFile.body) = Len(plan)
          /\ \A k \in DOMAIN plan :
                /\ jsonFile.body[k][1] = <<"segment", plan[k]>>
                /\ jsonFile.body[k][2] = <<"text", results[k].Text>>
                /\ IF results[k].Error # ""
                   THEN /\ Len(jsonFile.body[k]) = 3
                        /\ jsonFile.body[k][3] = <<"error", results[k].Error>>
                   ELSE Len(jsonFile.body[k]) = 2
    /\ pc = "done" => txtFile.written /\ jsonFile.written

\* both reports written for a plan of three or more segments, some failed
C6_Witness ==
    /\ pc = "done"
    /\ txtFile.written
    /\ Len(plan) >= 3
    /\ \E i, j \in DOMAIN results : results[i].Error # "" /\ results[j].Error = ""

IsSorted(rs) ==
    \A i, j \in DOMAIN rs : i < j => rs[i].Segment.StartTime <= rs[j].Segment.StartTime

Count(rs, r) == Cardinality({k \in DOMAIN rs : rs[k] = r})

IsPermutation(a, b) ==
    /\ Len(a) = Len(b)
    /\ \A k \in DOMAIN a : Count(a, a[k]) = Count(b, a[k])

\* C5: whatever order the results sit in before the sort, the collection
\* ProcessWithCpp returns is in ascending order of Segment.StartTime and is a
\* permutation of the results the goroutines wrote.
C5_SortedPermutation ==
    Processed => IsSorted(ordered) /\ IsPermutation(results, ordered)

\* three results that were not in order, two of them with one start time
C5_Witness ==
    /\ pc = "processed"
    /\ Len(results) = 3
    /\ ~IsSorted(results)
    /\ \E i, j \in DOMAIN results :
          i # j /\ results[i].Segment.StartTime = results[j].Segment.StartTime

---------------------------------------------------------------------------
(* Failures of extraction and of the setup. *)

\* C11: a failure of one segment's extraction does not abort the run, and the
\* segment whose file is missing ends with a result that has a non-empty
\* error and an empty text.
C11_MissingFileFails ==
    Processed =>
        \A k \in DOMAIN plan :
            plan[k].FilePath \notin files =>
                results[k].Error # "" /\ results[k].Text = ""

\* C12: once the silence detector or the total-duration probe has failed, Run
\* has returned the error and stays there: no segment is planned, no
\* extraction or transcription worker exists, and no report is written.
C12_SetupFailureAborts ==
    setupError =>
        /\ pc = "failed_create"
        /\ segments = << >> /\ plan = << >>
        /\ ext = << >> /\ tr = << >> /\ semaphore = 0
        /\ results = << >> /\ ordered = << >>
        /\ ~jsonFile.written /\ ~txtFile.written

\* the probe failed after the detector had returned a silence point
C12_Witness ==
    /\ setupError
    /\ pc = "failed_create"
    /\ silencePoints # << >>

---------------------------------------------------------------------------
(* The transcription workers. *)

\* a worker that is done has succeeded (no error) or failed (an error and no
\* text)
Succeeded(k) == tr[k] = "done" /\ results[k].Error = ""
Failed(k) == tr[k] = "done" /\ results[k].Error # "" /\ results[k].Text = ""

\* C13: each segment's transcription goes Pending (waiting) -> Running ->
\* Succeeded or Failed and no other way: it becomes Running only by taking a
\* free pool slot, every Running worker holds a slot, a worker that is done is
\* in exactly one of the two terminal states and neither its state nor its
\* result changes again; when ProcessWithCpp has returned every worker is
\* terminal.
C13_StateMachine ==
    /\ [](tr # << >> =>
            /\ pc = "transcribing" => Cardinality(Running(tr)) = semaphore
            /\ \A k \in DOMAIN tr :
                   /\ tr[k] \in {"waiting", "running", "done"}
                   /\ tr[k] = "done" => (Succeeded(k) /\ ~Failed(k)) \/ (Failed(k) /\ ~Succeeded(k))
                   /\ tr[k] # "done" => results[k] = ZeroResult
            /\ Processed => AllDone(tr))
    /\ [][\A k \in DOMAIN tr :
            /\ tr[k] = "waiting" => tr'[k] \in {"waiting", "running"}
            /\ tr[k] = "running" => tr'[k] \in {"running", "done"}
            /\ tr[k] = "done" => tr'[k] = "done" /\ results'[k] = results[k]
            /\ tr[k] = "waiting" /\ tr'[k] = "running" =>
                   semaphore < MaxWorkers /\ semaphore' = semaphore + 1]_vars

\* four workers at once: one pending, one running, one succeeded, one failed
C13_Witness ==
    /\ pc = "transcribing"
    /\ \E a, b, c, d \in DOMAIN tr :
          /\ tr[a] = "waiting"
          /\ tr[b] = "running"
          /\ Succeeded(c)
          /\ Failed(d)

\* C14: in the transcription phase worker k alone writes slot k, and writes it
\* once: a slot has no writer while its worker is pending or running, the one
\* writer k from the moment worker k is done, and never a second writer; when
\* ProcessWithCpp's wait is over every slot has been written.
C14_SlotsWrittenOnce ==
    /\ \A k \in DOMAIN writers :
           /\ Len(writers[k]) <= 1
           /\ tr # << >> => (writers[k] = IF tr[k] = "done" THEN <<k>> ELSE << >>)
    /\ Processed => \A k \in DOMAIN plan : writers[k] = <<k>>

\* two workers in flight, the last slot written before the first
C14_Witness ==
    /\ pc = "transcribing"
    /\ Len(plan) >= 3
    /\ writers[1] = << >>
    /\ writers[Len(plan)] = <<Len(plan)>>
    /\ Cardinality(Running(tr)) = 2

---------------------------------------------------------------------------
(* The order of results with one start time. *)

RemoveAt(s, i) == [k \in 1..(Len(s) - 1) |-> IF k < i THEN s[k] ELSE s[k + 1]]

\* the stable order: ascending start time, equal start times in slot order
RECURSIVE StableOrder(_)
StableOrder(rs) ==
    IF rs = << >>
    THEN << >>
    ELSE LET m == SetMin({rs[k].Segment.StartTime : k \in DOMAIN rs})
             i == SetMin({k \in DOMAIN rs : rs[k].Segment.StartTime = m})
         IN  <<rs[i]>> \o StableOrder(RemoveAt(rs, i))

---------------------------------------------------------------------------
(* The boundary walk. *)

\* the raw segment the walk has just appended is [start, end)
ClosedLast(segs, start, end) ==
    /\ segs # << >>
    /\ segs[Len(segs)].StartTime = start
    /\ segs[Len(segs)].EndTime = end

---------------------------------------------------------------------------
(* The re-probe of transcribeCpp. *)

\* C17: a failed duration probe is fatal for the phase that called it: when
\* the re-probe of a segment has failed, the engine has not been called with
\* a hint made from it and the segment's result carries the failure.
C17_FailedProbeReported ==
    \A k \in DOMAIN calls :
        tr[k] = "done" /\ ~calls[k].probeOk =>
            ~calls[k].called /\ results[k].Error # ""

---------------------------------------------------------------------------
(* The order of the phases. *)

Finished(workers) ==
    /\ DOMAIN workers = DOMAIN plan
    /\ \A k \in DOMAIN workers : workers[k] = "done"

\* C18: the phases do not overlap.  While any transcription worker exists
\* (pending, holding a slot, or done with its engine call) every extraction
\* worker has finished, with its file written or not; and from the moment
\* ProcessWithCpp has returned, so whenever OutputResults runs or a report
\* exists, every transcription worker has finished.
C18_PhasesDoNotOverlap ==
    /\ pc = "extracting" => tr = << >>
    /\ tr # << >> => Finished(ext)
    /\ (\E k \in DOMAIN calls : calls[k].called) => Finished(ext)
    /\ Processed \/ jsonFile.written \/ txtFile.written =>
           Finished(ext) /\ Finished(tr) /\ semaphore = 0

\* a transcription worker holds a slot after an extraction phase in which one
\* file was written and another was not
C18_Witness ==
    /\ pc = "transcribing"
    /\ Running(tr) # {}
    /\ \E i, j \in DOMAIN plan :
          plan[i].FilePath \in files /\ plan[j].FilePath \notin files

---------------------------------------------------------------------------
(* Termination and the pool's slots. *)

\* Run has returned, with the reports or with an error
Returned == pc \in {"done", "failed_create", "failed_extract", "failed_output"}

\* C19: with MaxWorkers >= 1 the phases always go on to their return: the run
\* is never stuck short of it, every worker that took a slot gives it back
\* (the slots held are exactly those of the running workers of the phase) and
\* no slot is held once the phase has returned; with MaxWorkers = 0 no worker
\* ever takes a slot and a non-empty plan is never completed.
C19_PhasesReturn ==
    /\ MaxWorkers >= 1 => Returned \/ ENABLED Next
    /\ pc = "extracting" => semaphore = Cardinality(Running(ext))
    /\ pc = "transcribing" => semaphore = Cardinality(Running(tr))
    /\ pc \notin {"extracting", "transcribing"} => semaphore = 0
    /\ MaxWorkers = 0 =>
           /\ Running(ext) = {} /\ Running(tr) = {}
           /\ plan # << >> => pc # "transcribing" /\ ~Processed

---------------------------------------------------------------------------
(* The files of the plan. *)

\* C20: no two segments of a plan returned by CreateSegments have the same
\* file path, also when they carry the same index, so no two extraction
\* workers write one file.
C20_DistinctFilePaths ==
    Planned =>
        \A i, j \in DOMAIN plan : i # j => plan[i].FilePath # plan[j].FilePath

\* a plan in which two segments carry the same index
C20_Witness ==
    /\ pc = "planned"
    /\ \E i, j \in DOMAIN plan : i # j /\ Index(plan[i]) = Index(plan[j])

=============================================================================
